---- MODULE Spec2Model ----
(***************************************************************************)
(* Model of summaryagent.py: the summary_middleware wrapper around the     *)
(* model call (lines 20-76) and the interactive loop that owns the         *)
(* conversation history (lines 92-142).                                    *)
(*                                                                         *)
(* A text is a sequence of tokens; "\n" and " " are tokens of their own,   *)
(* so joining, prefixing and stripping are computed, not assumed.          *)
(***************************************************************************)
EXTENDS Integers, Sequences, FiniteSets, TLC

VARIABLES
    pc,              \* position of the program
    turn,            \* the loop's turn counter
    messages,        \* the loop's conversation history
    errors,          \* number of error lines the loop has printed
    request,         \* the ModelRequest the wrapper was called with
    msgs,            \* local msgs of summary_middleware
    compressed,      \* local compressed of summary_middleware
    summarizerCalls, \* prompts sent to summarizer.invoke in this invocation
    handlerCalls,    \* requests passed to handler in this invocation
    outcome,         \* how the wrapper ended: "none", "returned", "raised"
    result,          \* the wrapper's return value
    retryNotice      \* whether line 76 printed its message

vars == <<pc, turn, messages, errors, request, msgs, compressed,
          summarizerCalls, handlerCalls, outcome, result, retryNotice>>

\* ------------------------------------------------------------------ bounds

MaxLen == 5

MaxTurns == 3

\* --------------------------------------------------------------- constants

SUMMARY_THRESHOLD == 3

None == [none |-> TRUE]

Pending == [pending |-> TRUE]

Raised == [raised |-> TRUE]

NL == "\n"

SummaryTag == "[Summary] "

SummarizePrompt == "Summarize this conversation briefly in 1-2 sentences:\n"

\* ---------------------------------------------------------------- messages

HumanMessage(c) == [role |-> "human", content |-> c]

AIMessage(c) == [role |-> "ai", content |-> c]

SystemMessage(c) == [role |-> "system", content |-> c]

\* An object without a content attribute: only its str() is available.
RawObject == [role |-> "raw", repr |-> <<"obj">>]

Str(m) == IF "repr" \in DOMAIN m THEN m.repr ELSE <<m.role>> \o m.content

\* getattr(m, "content", str(m))
TextOf(m) == IF "content" \in DOMAIN m THEN m.content ELSE Str(m)

\* ------------------------------------------------------------ python lists

Max(a, b) == IF a >= b THEN a ELSE b

Min(a, b) == IF a <= b THEN a ELSE b

\* Python's normalisation of a slice index i for a list of length n.
SliceIndex(n, i) == IF i < 0 THEN Max(n + i, 0) ELSE Min(i, n)

\* s[i:]
SliceFrom(s, i) == SubSeq(s, SliceIndex(Len(s), i) + 1, Len(s))

\* s[:j]
SliceTo(s, j) == SubSeq(s, 1, SliceIndex(Len(s), j))

RECURSIVE Join(_, _)
\* sep.join(texts)
Join(sep, texts) ==
    IF texts = <<>> THEN <<>>
    ELSE IF Len(texts) = 1 THEN texts[1]
    ELSE texts[1] \o <<sep>> \o Join(sep, Tail(texts))

\* ------------------------------------------------------------ python strings

RECURSIVE LStrip(_)
LStrip(t) == IF t # <<>> /\ Head(t) = " " THEN LStrip(Tail(t)) ELSE t

RECURSIVE RStrip(_)
RStrip(t) == IF t # <<>> /\ t[Len(t)] = " " THEN RStrip(SubSeq(t, 1, Len(t) - 1)) ELSE t

\* t.strip()
Strip(t) == RStrip(LStrip(t))

LowerToken(w) == IF w = "Quit" THEN "quit" ELSE w

\* t.lower()
Lower(t) == [i \in 1..Len(t) |-> LowerToken(t[i])]

\* ------------------------------------------------------ summary_middleware

\* mutant: the empty list is not passed through
EmptyFastPath_Never(l) == FALSE

\* if not msgs
EmptyFastPath(l) == l = <<>>

\* mutant: >= for >
NeedsSummary_AtThreshold(l) == Len(l) >= SUMMARY_THRESHOLD

\* if len(msgs) > SUMMARY_THRESHOLD
NeedsSummary(l) == Len(l) > SUMMARY_THRESHOLD

\* mutant: msgs[SUMMARY_THRESHOLD:], the sign of the index lost
MessagesToKeep_FromFront(l) == SliceFrom(l, SUMMARY_THRESHOLD)

\* msgs[-SUMMARY_THRESHOLD:]
MessagesToKeep(l) == SliceFrom(l, -SUMMARY_THRESHOLD)

\* mutant: msgs[:SUMMARY_THRESHOLD], the sign of the index lost
MessagesToSummarize_FromFront(l) == SliceTo(l, SUMMARY_THRESHOLD)

\* msgs[:-SUMMARY_THRESHOLD]
MessagesToSummarize(l) == SliceTo(l, -SUMMARY_THRESHOLD)

\* "\n".join(getattr(m, "content", str(m)) for m in messages_to_summarize)
ChunkText(l) == Join(NL, [i \in 1..Len(l) |-> TextOf(l[i])])

\* the HumanMessage handed to summarizer.invoke
SummaryRequest(l) == HumanMessage(<<SummarizePrompt>> \o ChunkText(l))

\* SystemMessage(content=f"[Summary] {summary_text}")
SummaryTurn(summary_text) == SystemMessage(<<SummaryTag>> \o summary_text)

\* mutant: msgs + compressed
NewMessages_Swapped(c, l) == l \o c

\* compressed + msgs
NewMessages(c, l) == c \o l

\* request.override(messages=new_messages): the request that is forwarded
Override(req, new_messages) == [req EXCEPT !.messages = new_messages]

\* mutant: request.messages = new_messages, an assignment to the caller's object
AfterOverride_InPlace(req, new_messages) == [req EXCEPT !.messages = new_messages]

\* request.override(messages=new_messages): the receiver afterwards
AfterOverride(req, new_messages) == req

\* one entry of the log of handler calls: what was passed, and the outcome
HandlerCall(req, orig) == [messages |-> req.messages, original |-> orig, response |-> Pending]

\* one entry of the log of summarizer.invoke calls
SummarizerCall(l) == [input |-> SummaryRequest(l), response |-> Pending]

\* the last call of a log gets its outcome
Answered(calls, r) == [calls EXCEPT ![Len(calls)].response = r]

\* ---------------------------------------------------------------- domains

\* what the operator may type on one line
Inputs == {<<"Quit", " ">>, <<>>, <<" ">>, <<" ", "hi">>, <<"yo">>}

MsgDomain == {HumanMessage(<<"a">>), AIMessage(<<"b">>), RawObject}

\* what the summarizer may answer
SummaryTexts == {<<"s">>, <<>>}

\* what the model behind handler may answer
Replies == {AIMessage(<<"ok">>), AIMessage(<<"hm">>)}

RECURSIVE SeqsUpTo(_, _)
SeqsUpTo(S, n) ==
    IF n = 0 THEN {<<>>}
    ELSE LET shorter == SeqsUpTo(S, n - 1)
         IN  shorter \cup {Append(s, x) : s \in {t \in shorter : Len(t) = n - 1}, x \in S}

\* --------------------------------------------- actions: summary_middleware

\* Lines 31-56: copy the list, take the fast path, or split and ask the
\* summarizer, or (at or below the threshold) go straight to the handler.
MwEnter ==
    /\ pc = "mw_start"
    /\ LET l == request.messages
       IN  IF EmptyFastPath(l)
           THEN /\ msgs' = l
                /\ handlerCalls' = Append(handlerCalls, HandlerCall(request, TRUE))
                /\ pc' = "forwarding"
                /\ UNCHANGED <<request, compressed, summarizerCalls>>
           ELSE IF NeedsSummary(l)
           THEN /\ msgs' = l
                /\ summarizerCalls' = Append(summarizerCalls, SummarizerCall(MessagesToSummarize(l)))
                /\ pc' = "summarizing"
                /\ UNCHANGED <<request, compressed, handlerCalls>>
           ELSE /\ msgs' = l
                /\ handlerCalls' = Append(handlerCalls,
                                          HandlerCall(Override(request, NewMessages(compressed, l)), FALSE))
                /\ request' = AfterOverride(request, NewMessages(compressed, l))
                /\ pc' = "forwarding"
                /\ UNCHANGED <<compressed, summarizerCalls>>
    /\ UNCHANGED <<turn, messages, errors, outcome, result, retryNotice>>

\* Lines 55-72: the summarizer answers; the summary turn is built, msgs is
\* rebound to the kept tail and the overridden request goes to the handler.
SummarizerReturns ==
    /\ pc = "summarizing"
    /\ \E summary_text \in SummaryTexts :
         LET c == Append(compressed, SummaryTurn(summary_text))
             keep == MessagesToKeep(msgs)
         IN  /\ compressed' = c
             /\ msgs' = keep
             /\ handlerCalls' = Append(handlerCalls,
                                       HandlerCall(Override(request, NewMessages(c, keep)), FALSE))
             /\ request' = AfterOverride(request, NewMessages(c, keep))
             /\ summarizerCalls' = Answered(summarizerCalls, AIMessage(summary_text))
    /\ pc' = "forwarding"
    /\ UNCHANGED <<turn, messages, errors, outcome, result, retryNotice>>

\* Line 55 raises: nothing in summary_middleware catches it.
SummarizerRaises ==
    /\ pc = "summarizing"
    /\ summarizerCalls' = Answered(summarizerCalls, Raised)
    /\ outcome' = "raised"
    /\ result' = Raised
    /\ pc' = "mw_done"
    /\ UNCHANGED <<turn, messages, errors, request, msgs, compressed,
                   handlerCalls, retryNotice>>

\* Lines 35 and 72: the handler's response is returned as it is.
HandlerReturns ==
    /\ pc = "forwarding"
    /\ \E r \in Replies :
         /\ handlerCalls' = Answered(handlerCalls, r)
         /\ result' = r
    /\ outcome' = "returned"
    /\ pc' = "mw_done"
    /\ UNCHANGED <<turn, messages, errors, request, msgs, compressed,
                   summarizerCalls, retryNotice>>

\* The handler raises. Line 35 is outside the try: the exception leaves the
\* wrapper. Line 72 is inside it: lines 73-76 print and fall off the end of
\* the function, which returns None.
HandlerRaises ==
    /\ pc = "forwarding"
    /\ handlerCalls' = Answered(handlerCalls, Raised)
    /\ IF handlerCalls[Len(handlerCalls)].original
       THEN /\ outcome' = "raised"
            /\ result' = Raised
            /\ UNCHANGED retryNotice
       ELSE /\ outcome' = "returned"
            /\ result' = None
            /\ retryNotice' = TRUE
    /\ pc' = "mw_done"
    /\ UNCHANGED <<turn, messages, errors, request, msgs, compressed, summarizerCalls>>

\* ------------------------------------------------ specification: the wrapper

InitMw ==
    /\ pc = "mw_start"
    /\ turn = 0
    /\ messages = <<>>
    /\ errors = 0
    /\ request \in {[messages |-> s] : s \in SeqsUpTo(MsgDomain, MaxLen)}
    /\ msgs = <<>>
    /\ compressed = <<>>
    /\ summarizerCalls = <<>>
    /\ handlerCalls = <<>>
    /\ outcome = "none"
    /\ result = None
    /\ retryNotice = FALSE

NextMw ==
    \/ MwEnter
    \/ SummarizerReturns
    \/ SummarizerRaises
    \/ HandlerReturns
    \/ HandlerRaises

SpecMw == InitMw /\ [][NextMw]_vars

\* ------------------------------------------------ actions: the main loop

\* user_input.lower() == "quit"
IsQuit(user_input) == Lower(user_input) = <<"quit">>

\* the wrapper's result is of no use to the caller: it raised, or it is None
TurnFailed == outcome = "raised" \/ result = None

\* Lines 104-126: one line is read; quit leaves the loop, an empty line is
\* skipped, anything else is appended to the history and the agent is
\* invoked, which calls the wrapper with the messages of the history.
ReadInput ==
    /\ pc = "input"
    /\ turn < MaxTurns
    /\ turn' = turn + 1
    /\ \E line \in Inputs :
         LET user_input == Strip(line)
         IN  IF IsQuit(user_input)
             THEN /\ pc' = "exit"
                  /\ UNCHANGED <<messages, request, msgs, compressed, summarizerCalls,
                                 handlerCalls, outcome, result, retryNotice>>
             ELSE IF user_input = <<>>
             THEN /\ pc' = "input"
                  /\ UNCHANGED <<messages, request, msgs, compressed, summarizerCalls,
                                 handlerCalls, outcome, result, retryNotice>>
             ELSE /\ messages' = Append(messages, HumanMessage(user_input))
                  /\ request' = [messages |-> Append(messages, HumanMessage(user_input))]
                  /\ msgs' = <<>>
                  /\ compressed' = <<>>
                  /\ summarizerCalls' = <<>>
                  /\ handlerCalls' = <<>>
                  /\ outcome' = "none"
                  /\ result' = None
                  /\ retryNotice' = FALSE
                  /\ pc' = "mw_start"
    /\ UNCHANGED errors

\* Lines 126-136: the agent answers; the reply is appended to the history.
AgentReplies ==
    /\ pc = "mw_done"
    /\ ~TurnFailed
    /\ messages' = Append(messages, AIMessage(result.content))
    /\ pc' = "input"
    /\ UNCHANGED <<turn, errors, request, msgs, compressed, summarizerCalls,
                   handlerCalls, outcome, result, retryNotice>>

\* mutant: no except clause, the exception ends the process
AgentFails_Crash ==
    /\ pc = "mw_done"
    /\ TurnFailed
    /\ pc' = "exit"
    /\ UNCHANGED <<turn, messages, errors, request, msgs, compressed, summarizerCalls,
                   handlerCalls, outcome, result, retryNotice>>

\* Lines 138-140: the call raised (the wrapper raised, or gave the agent
\* None where a response is needed); the error is printed and the loop
\* goes on.
AgentFails ==
    /\ pc = "mw_done"
    /\ TurnFailed
    /\ errors' = errors + 1
    /\ pc' = "input"
    /\ UNCHANGED <<turn, messages, request, msgs, compressed, summarizerCalls,
                   handlerCalls, outcome, result, retryNotice>>

\* ------------------------------------------- specification: the whole script

Init ==
    /\ pc = "input"
    /\ turn = 0
    /\ messages = <<>>
    /\ errors = 0
    /\ request = [messages |-> <<>>]
    /\ msgs = <<>>
    /\ compressed = <<>>
    /\ summarizerCalls = <<>>
    /\ handlerCalls = <<>>
    /\ outcome = "none"
    /\ result = None
    /\ retryNotice = FALSE

Next ==
    \/ ReadInput
    \/ MwEnter
    \/ SummarizerReturns
    \/ SummarizerRaises
    \/ HandlerReturns
    \/ HandlerRaises
    \/ AgentReplies
    \/ AgentFails

Spec == Init /\ [][Next]_vars

\* ---------------------------------------------------------------- claims

Done == pc = "mw_done"

Input == request.messages

\* the last n elements of s, counted from the end
LastN(s, n) == [i \in 1..n |-> s[Len(s) - n + i]]

IsPrefix(s, t) == Len(s) <= Len(t) /\ SubSeq(t, 1, Len(s)) = s

\* a turn made by line 61: system role, text tagged "[Summary] "
IsSummaryTurn(m) ==
    /\ m.role = "system"
    /\ m.content # <<>>
    /\ m.content[1] = SummaryTag

RECURSIVE SplitAt(_, _)
\* the pieces of text t between the separators sep
SplitAt(t, sep) ==
    IF \A i \in 1..Len(t) : t[i] # sep THEN <<t>>
    ELSE LET k == CHOOSE i \in 1..Len(t) : t[i] = sep /\ \A j \in 1..(i - 1) : t[j] # sep
         IN  <<SubSeq(t, 1, k - 1)>> \o SplitAt(SubSeq(t, k + 1, Len(t)), sep)

\* C1: when the handler call made with the compacted list fails, the
\* wrapper calls the handler again with the original request before it
\* ends, and returns that call's response when it succeeds.
C1_RetryWithOriginal ==
    Done =>
        \A i \in DOMAIN handlerCalls :
            (~handlerCalls[i].original /\ handlerCalls[i].response = Raised) =>
                /\ i < Len(handlerCalls)
                /\ handlerCalls[i + 1].original
                /\ handlerCalls[i + 1].response \in Replies => result = handlerCalls[i + 1].response

\* C2: when the summarizer raises, the wrapper's caller sees no exception
\* from the compaction step, and the list that is forwarded starts with a
\* summary turn whose text is a truncation of the joined head text.
C2_SummarizerFailureFallsBack ==
    (Done /\ \E i \in DOMAIN summarizerCalls : summarizerCalls[i].response = Raised) =>
        /\ outcome # "raised"
        /\ handlerCalls # <<>>
        /\ LET fm == handlerCalls[1].messages
           IN  /\ fm # <<>>
               /\ IsSummaryTurn(fm[1])
               /\ IsPrefix(Tail(fm[1].content), ChunkText(SubSeq(Input, 1, Len(Input) - SUMMARY_THRESHOLD)))

\* C3: a list of at most SUMMARY_THRESHOLD messages is forwarded element
\* for element, and the summarizer is not called.
C3_BelowThresholdUnchanged ==
    Len(Input) <= SUMMARY_THRESHOLD =>
        /\ summarizerCalls = <<>>
        /\ \A i \in DOMAIN handlerCalls : handlerCalls[i].messages = Input
        /\ (Done /\ outcome = "returned") => handlerCalls # <<>>

C3_Witness ==
    /\ Done
    /\ Len(Input) = SUMMARY_THRESHOLD
    /\ Len(handlerCalls) = 1
    /\ handlerCalls[1].response \in Replies

\* C4: for a list longer than SUMMARY_THRESHOLD, the last SUMMARY_THRESHOLD
\* messages of the forwarded list are the last SUMMARY_THRESHOLD messages of
\* the input, in the same order.
C4_KeptTailPreserved ==
    Len(Input) > SUMMARY_THRESHOLD =>
        \A i \in DOMAIN handlerCalls :
            /\ Len(handlerCalls[i].messages) >= SUMMARY_THRESHOLD
            /\ LastN(handlerCalls[i].messages, SUMMARY_THRESHOLD) = LastN(Input, SUMMARY_THRESHOLD)

C4_Witness ==
    /\ Done
    /\ Len(Input) > SUMMARY_THRESHOLD + 1
    /\ Len(handlerCalls) = 1
    /\ Input[Len(Input)] # Input[Len(Input) - 1]

\* C5: every forwarded list is a run of summary turns followed by messages
\* of the input and no summary turn among them; with no summary turn the
\* forwarded list is the input.
C5_SummariesPrecedeTail ==
    \A i \in DOMAIN handlerCalls :
        LET fm == handlerCalls[i].messages
        IN  \E k \in 0..Len(fm) :
                /\ \A j \in 1..k : IsSummaryTurn(fm[j])
                /\ \A j \in (k + 1)..Len(fm) : ~IsSummaryTurn(fm[j])
                /\ Len(fm) - k <= Len(Input)
                /\ SubSeq(fm, k + 1, Len(fm)) = LastN(Input, Len(fm) - k)
                /\ k = 0 => fm = Input
                /\ k > 0 => Len(fm) - k = SUMMARY_THRESHOLD

C5_Witness ==
    /\ Done
    /\ Len(handlerCalls) = 1
    /\ Len(handlerCalls[1].messages) = SUMMARY_THRESHOLD + 1
    /\ IsSummaryTurn(handlerCalls[1].messages[1])

\* C6: on every path through the wrapper the handler is called exactly
\* once, and not while the summarizer call is in flight.
C6_ExactlyOneForward ==
    /\ Done => Len(handlerCalls) = 1
    /\ pc = "summarizing" => handlerCalls = <<>>

\* C7: with an empty list the handler gets the original request, nothing
\* is summarized or added, and the handler's response is what is returned.
C7_EmptyPassThrough ==
    Input = <<>> =>
        /\ summarizerCalls = <<>>
        /\ compressed = <<>>
        /\ \A i \in DOMAIN handlerCalls :
               handlerCalls[i].original /\ handlerCalls[i].messages = <<>>
        /\ Done =>
               /\ Len(handlerCalls) = 1
               /\ outcome = "returned" =>
                      result \in Replies /\ result = handlerCalls[1].response

C7_Witness ==
    /\ Done
    /\ Input = <<>>
    /\ outcome = "returned"
    /\ Len(handlerCalls) = 1

\* C8: a failed turn leaves the history as it was and the loop at its next
\* input; and no step ever does anything to the history but append to it.
C8_FailureConfinedToTurn ==
    [][ /\ IsPrefix(messages, messages')
        /\ (Done /\ TurnFailed) => (messages' = messages /\ pc' = "input") ]_vars

C8_Witness ==
    /\ pc = "input"
    /\ errors > 0
    /\ Len(messages) > SUMMARY_THRESHOLD
    /\ messages[Len(messages)].role = "ai"
    /\ messages[1].role = "human" /\ messages[2].role = "human"

\* C9: no step of the wrapper changes the request it was called with.
C9_RequestNotMutated ==
    [][(pc \in {"mw_start", "summarizing", "forwarding"}) => (request' = request)]_vars

C9_Witness ==
    /\ Done
    /\ Len(handlerCalls) = 1
    /\ handlerCalls[1].messages # Input
    /\ Len(Input) > SUMMARY_THRESHOLD

\* C10: for a list of n > SUMMARY_THRESHOLD messages the summarizer is asked
\* once, and the text it is given splits at the newlines into the texts of
\* the first n - SUMMARY_THRESHOLD messages, in order.
C10_OneRequestOverHead ==
    (Len(Input) > SUMMARY_THRESHOLD /\ pc \in {"summarizing", "forwarding", "mw_done"}) =>
        /\ Len(summarizerCalls) = 1
        /\ LET text == summarizerCalls[1].input.content
               head == SplitAt(Tail(text), NL)
           IN  /\ text[1] = SummarizePrompt
               /\ Len(head) = Len(Input) - SUMMARY_THRESHOLD
               /\ \A j \in 1..Len(head) : head[j] = TextOf(Input[j])

C10_Witness ==
    /\ Done
    /\ Len(Input) = SUMMARY_THRESHOLD + 2
    /\ Len(summarizerCalls) = 1
    /\ Input[1] # Input[2]
    /\ Len(handlerCalls) = 1

====
